---- MODULE Spec2Model ----
(***************************************************************************)
(* A model of the export pipeline of torch/_export/non_strict_utils.py     *)
(* (fakification of the inputs and derivation of the range and equality    *)
(* constraints) and of the unlift rewriter of torch/export/_unlift.py.     *)
(*                                                                         *)
(* Python values are modelled with uniform records: None is the record     *)
(* whose flag (isSet, t_id = 0, ...) is off.  Dimension indices and        *)
(* argument indices are 0-based as in the source; sequences are 1-based.   *)
(***************************************************************************)
EXTENDS Integers, Sequences, FiniteSets, TLC

\* ------------------------------------------------------------------------
\* Bounds of the model
\* ------------------------------------------------------------------------
MaxLeaves == 2

MaxConstraints == 1

MaxInputs == 2

MaxOutputs == 2

MaxArgs == 2

MaxCalls == 2

MaxExtraFiles == 2

\* ------------------------------------------------------------------------
\* The universe of inputs of the constraint pipeline
\* ------------------------------------------------------------------------
\* Two real tensors (by identity); tensor 1 has shape (3, 4), tensor 2 (3,).
TensorIds == {1, 2}

Shape(t) == IF t = 1 THEN <<3, 4>> ELSE <<3>>

DimsOf(t) == 0 .. (Len(Shape(t)) - 1)

\* Symbols the shape environment can allocate (s0, s1) and the symbol of a
\* derived size that only occurs on intermediate values of the traced graph.
Symbols == {1, 2}

DerivedSymbol == 9

\* A leaf of the argument tree: None, a script object, a tensor or anything else.
LeafNone == [kind |-> "None", id |-> 0]

LeafScript == [kind |-> "ScriptObject", id |-> 0]

LeafOther == [kind |-> "Other", id |-> 0]

LeafTensor(t) == [kind |-> "Tensor", id |-> t]

Leaves == {LeafNone, LeafScript, LeafOther} \cup {LeafTensor(t) : t \in TensorIds}

\* Constraint.shared is None or names another (tensor, dim).
NoShared == [t_id |-> 0, dim |-> 0]

TensorDims == {[t_id |-> t, dim |-> d] : t \in TensorIds, d \in {0, 1}}

ValidTensorDims == {td \in TensorDims : td.dim \in DimsOf(td.t_id)}

\* The range a constraint declares for its own dimension.
RangeOf(td) == [lo |-> 1 + td.dim, hi |-> 4 + td.t_id + 2 * td.dim]

Constraint(td, sh) ==
    [t_id |-> td.t_id, dim |-> td.dim, shared |-> sh,
     constraint_range |-> RangeOf(td), debug_name |-> <<td.t_id, td.dim>>]

Constraints ==
    {Constraint(td, sh) : td \in ValidTensorDims, sh \in ValidTensorDims \cup {NoShared}}

SeqsUpTo(S, n) == UNION {[1 .. k -> S] : k \in 0 .. n}

NoSource == [idx |-> 0 - 1, prop |-> "none", dim |-> 0 - 1]

NoError == [isSet |-> FALSE, id |-> "none", msg |-> <<>>]

\* The absent range (None in constraint_sizes): it contains no integer.
NoRange == [lo |-> 0, hi |-> 0 - 1]

VARIABLES
    args,               \* the leaves of the argument tree, in tree-walk order
    constraints,        \* the declared constraints, in declaration order
    pc,                 \* position of the export call
    t_constraints,      \* make_fake_inputs: (t_id, dim) -> Constraint
    sources,            \* make_fake_inputs: (t_id, dim) -> Source
    fake_args,          \* results of fakify, one per walked leaf
    tracked_fakes,      \* shape_env.tracked_fakes
    debug_names,        \* shape_env.source_name_to_debug_name
    var_to_range,       \* shape_env.var_to_range
    frozen,             \* shape_env.frozen
    src_equalities,     \* pairs of sources declared equal
    specialized,        \* symbols the trace collapsed to a constant
    gm_nodes,           \* gm.graph.nodes of the traced graph
    guards,             \* outcome of shape_env.produce_guards
    solved,             \* dim_constraints.solve() has run
    cve,                \* make_constraints: constraint_violation_error
    forced,             \* make_constraints: forced_specializations
    msg,                \* make_constraints: the rendered summary
    raised,             \* the exception that left the call, if any
    result,             \* what make_constraints returned
    ep,                 \* the frozen program handed to unlift, as it is at the call
    orig,               \* the frozen program object while unlift runs
    upc,                \* position of the unlift call
    new_gm,             \* the copy of the graph module unlift rewrites
    umaps,              \* unlifted_name_to_node, input_name_to_node, next node id
    uerr,               \* the exception that left unlift, if any
    again,              \* outcome of applying _unlift to new_gm once more
    module,             \* a module made by _create_stateful_graph_module
    call,               \* the invocation of module in progress, or the last one
    history,            \* how the earlier invocations of module ended
    saved,              \* what save was given, and what load will be given
    archive,            \* the zip file: entries in the order written
    ld                  \* the load call: its locals and its position

mcvars ==
    <<args, constraints, pc, t_constraints, sources, fake_args, tracked_fakes,
      debug_names, var_to_range, frozen, src_equalities, specialized, gm_nodes,
      guards, solved, cve, forced, msg, raised, result>>

uvars == <<ep, orig, upc, new_gm, umaps, uerr, again>>

cvars == <<module, call, history>>

svars == <<saved, archive, ld>>

vars == <<mcvars, uvars, cvars, svars>>

\* ------------------------------------------------------------------------
\* Sources
\* ------------------------------------------------------------------------
\* key_path_to_source for the key path (SequenceKey(idx),) of a top-level leaf.
key_path_to_source(idx) == [idx |-> idx, prop |-> "item", dim |-> 0 - 1]

TensorPropertySource(base, i) == [idx |-> base.idx, prop |-> "size", dim |-> i]

\* ------------------------------------------------------------------------
\* make_fake_inputs: the per-tensor constraint table
\* ------------------------------------------------------------------------
Key(t, d) == [t_id |-> t, dim |-> d]

Put(f, k, v) == [x \in DOMAIN f \cup {k} |-> IF x = k THEN v ELSE f[x]]

RECURSIVE BuildTConstraints(_, _, _)
BuildTConstraints(cs, i, acc) ==
    IF i > Len(cs) THEN acc
    ELSE LET c == cs[i]
             own == Put(acc, Key(c.t_id, c.dim), c)
             both == IF c.shared # NoShared
                     THEN Put(own, Key(c.shared.t_id, c.shared.dim), c)
                     ELSE own
         IN BuildTConstraints(cs, i + 1, both)

EmptyMap == [x \in {} |-> 0]

\* ------------------------------------------------------------------------
\* fakify
\* ------------------------------------------------------------------------
SymDim(s) == [isSym |-> TRUE, v |-> s]

IntDim(n) == [isSym |-> FALSE, v |-> n]

\* The per-dimension marker: the dimensions t_constraints lists for this
\* tensor are overwritten with DYNAMIC, all others keep the STATIC default.
DynamicSizes(tc, t) ==
    [d \in 1 .. Len(Shape(t)) |->
        IF Key(t, d - 1) \in DOMAIN tc THEN "DYNAMIC" ELSE "STATIC"]

\* A context whose constraint_sizes stay None.
ConstraintSizesUnset(tc, t) == [d \in 1 .. Len(Shape(t)) |-> NoRange]

ConstraintSizes(tc, t) ==
    [d \in 1 .. Len(Shape(t)) |->
        IF Key(t, d - 1) \in DOMAIN tc
        THEN tc[Key(t, d - 1)].constraint_range
        ELSE NoRange]

StatelessSymbolicContext(tc, t) ==
    [dynamic_sizes |-> DynamicSizes(tc, t), constraint_sizes |-> ConstraintSizes(tc, t)]

\* sources[(t_id, i)] = TensorPropertySource(source, SIZE, i) for every
\* constrained dimension i of the tensor; a later leaf overwrites an earlier one.
FakifySources(srcs, tc, t, source) ==
    LET ks == {k \in DOMAIN tc : k.t_id = t}
    IN [k \in DOMAIN srcs \cup ks |->
            IF k \in ks THEN TensorPropertySource(source, k.dim) ELSE srcs[k]]

FakifyDebugNames(names, tc, t, source) ==
    LET ks == {k \in DOMAIN tc : k.t_id = t}
        new == {TensorPropertySource(source, k.dim) : k \in ks}
    IN [s \in DOMAIN names \cup new |->
            IF s \in new THEN tc[Key(t, s.dim)].debug_name ELSE names[s]]

\* The symbols a list of tracked fakes carries, in allocation order.
RECURSIVE SymbolsInOrder(_, _, _)
SymbolsInOrder(tfs, i, d) ==
    IF i > Len(tfs) THEN <<>>
    ELSE IF d > Len(tfs[i].fake.shape) THEN SymbolsInOrder(tfs, i + 1, 1)
    ELSE LET x == tfs[i].fake.shape[d]
         IN (IF x.isSym THEN <<x.v>> ELSE <<>>) \o SymbolsInOrder(tfs, i, d + 1)

Max(S) == IF S = {} THEN 0 ELSE CHOOSE x \in S : \A y \in S : y <= x

Min(S) == CHOOSE x \in S : \A y \in S : x <= y

\* The shape environment hands out s0, s1, ... in order: a dimension gets a
\* symbol already in use (duck sizing) or the next unused one.
AllocationOrder(syms) ==
    \A p \in 1 .. Len(syms) : syms[p] <= 1 + Max({syms[q] : q \in 1 .. (p - 1)})

\* mode.from_tensor: a placeholder whose STATIC dimensions carry the real size
\* and whose DYNAMIC dimensions carry a symbol of the shape environment.
FromTensorChoices(tfs, t, ctx) ==
    {f \in [kind : {"Tensor"},
            shape : [1 .. Len(Shape(t)) ->
                        {SymDim(s) : s \in Symbols} \cup {IntDim(n) : n \in {3, 4}}]] :
        /\ \A d \in 1 .. Len(Shape(t)) :
              IF ctx.dynamic_sizes[d] = "DYNAMIC"
              THEN f.shape[d].isSym
              ELSE f.shape[d] = IntDim(Shape(t)[d])
        /\ AllocationOrder(SymbolsInOrder(
              Append(tfs, [fake |-> f, source |-> NoSource, symbolic_context |-> ctx]),
              1, 1))}

TrackedFake(fake, source, ctx) ==
    [fake |-> fake, source |-> source, symbolic_context |-> ctx]

\* The (fake index, dimension) positions of a list of tracked fakes.
Positions(tfs) ==
    {p \in (1 .. Len(tfs)) \X {1, 2} : p[2] <= Len(tfs[p[1]].fake.shape)}

UsedSymbols(tfs) ==
    {tfs[p[1]].fake.shape[p[2]].v :
        p \in {q \in Positions(tfs) : tfs[q[1]].fake.shape[q[2]].isSym}}

\* The range the shape environment holds for a symbol: the intersection of the
\* ranges declared for the dimensions that carry it.
DeclaredRanges(tfs, s) ==
    {tfs[p[1]].symbolic_context.constraint_sizes[p[2]] :
        p \in {q \in Positions(tfs) : tfs[q[1]].fake.shape[q[2]] = SymDim(s)}}

VarToRange(tfs) ==
    [s \in UsedSymbols(tfs) |->
        [lo |-> Max({r.lo : r \in DeclaredRanges(tfs, s)}),
         hi |-> Min({r.hi : r \in DeclaredRanges(tfs, s)})]]

\* ------------------------------------------------------------------------
\* The state of the unlift rewriter while the constraint pipeline runs
\* ------------------------------------------------------------------------
NoProgram == [nodes |-> <<>>, input_specs |-> <<>>, output_specs |-> <<>>]

\* Object identities: ep.graph_module, and no object.
OrigGraphModule == 1

NoObject == 0

NoModule == [obj |-> NoObject, nodes |-> <<>>, attrs |-> EmptyMap, hooked |-> FALSE]

NoOriginal ==
    [graph |-> <<>>, input_specs |-> <<>>, output_specs |-> <<>>,
     state_dict |-> {}, constants |-> {}]

NoMaps == [unlifted |-> EmptyMap, inputs |-> EmptyMap, next |-> 0]

NoSecondRun == [done |-> FALSE, ok |-> FALSE, err |-> "none", nodes |-> <<>>]

UnliftIdle ==
    /\ ep = NoProgram
    /\ orig = NoOriginal
    /\ upc = "idle"
    /\ new_gm = NoModule
    /\ umaps = NoMaps
    /\ uerr = "none"
    /\ again = NoSecondRun

\* No tree, no tree spec, no stateful module, and no invocation.
NoTree == [type |-> "none", val |-> 0, keys |-> <<>>, items |-> <<>>]

NoSpec == [type |-> "none", context |-> <<>>, children |-> <<>>]

NoStatefulModule ==
    [created |-> FALSE, in_spec |-> NoSpec, range_constraints |-> NoRange,
     placeholders |-> 0, hooks |-> <<>>]

NoCall ==
    [phase |-> "none", received |-> NoTree, flat |-> <<>>, received_spec |-> NoSpec,
     range_checked |-> FALSE, executed |-> 0, err |-> "none"]

CallIdle ==
    /\ module = NoStatefulModule
    /\ call = NoCall
    /\ history = <<>>

\* Nothing saved, no archive, no load.
NoBytes == [isSet |-> FALSE, data |-> <<>>]

NoArtifact == [exported_program |-> <<>>, state_dict |-> <<>>, constants |-> <<>>]

NoLoad ==
    [phase |-> "none", version |-> <<>>, next |-> 0, reads |-> 0,
     serialized_exported_program |-> NoBytes, serialized_state_dict |-> NoBytes,
     serialized_constants |-> NoBytes, extra_files |-> EmptyMap,
     callers_map |-> FALSE, warnings |-> 0, artifact |-> NoArtifact,
     ep |-> 0, err |-> "none"]

NothingSaved ==
    [ep |-> 0, extra_files |-> <<>>, schema_version |-> <<>>,
     load_extra_files |-> [given |-> FALSE, map |-> EmptyMap]]

SerdeIdle ==
    /\ saved = NothingSaved
    /\ archive = <<>>
    /\ ld = NoLoad

\* ------------------------------------------------------------------------
\* The export call, step by step: make_fake_inputs
\* ------------------------------------------------------------------------
InitMC ==
    /\ UnliftIdle
    /\ CallIdle
    /\ SerdeIdle
    /\ args \in SeqsUpTo(Leaves, MaxLeaves)
    /\ constraints \in SeqsUpTo(Constraints, MaxConstraints)
    /\ pc = "mfi_start"
    /\ t_constraints = EmptyMap
    /\ sources = EmptyMap
    /\ fake_args = <<>>
    /\ tracked_fakes = <<>>
    /\ debug_names = EmptyMap
    /\ var_to_range = EmptyMap
    /\ frozen = FALSE
    /\ src_equalities = <<>>
    /\ specialized = {}
    /\ gm_nodes = <<>>
    /\ guards = "none"
    /\ solved = FALSE
    /\ cve = NoError
    /\ forced = {}
    /\ msg = <<>>
    /\ raised = NoError
    /\ result = [isSet |-> FALSE, range_constraints |-> EmptyMap,
                 equality_constraints |-> <<>>]

\* Lines 100-114: the constraint table and a fresh shape environment.
MakeFakeInputsBegin ==
    /\ pc = "mfi_start"
    /\ t_constraints' = BuildTConstraints(constraints, 1, EmptyMap)
    /\ tracked_fakes' = <<>>
    /\ pc' = "fakify"
    /\ UNCHANGED <<uvars, cvars, svars>>
    /\ UNCHANGED <<args, constraints, sources, fake_args, debug_names, var_to_range,
                   frozen, src_equalities, specialized, gm_nodes, guards, solved,
                   cve, forced, msg, raised, result>>

\* A fakify that returns only None as it is.
OnlyNonePassedThrough(t) == t.kind = "None"

\* Line 61: t is None or isinstance(t, torch.ScriptObject)
IsPassedThrough(t) == t.kind \in {"None", "ScriptObject"}

\* Line 63: isinstance(t, torch.Tensor)
IsTensor(t) == t.kind = "Tensor"

\* fakify on a None or script-object leaf: returned as is.
FakifyPassThrough ==
    /\ pc = "fakify"
    /\ Len(fake_args) < Len(args)
    /\ LET t == args[Len(fake_args) + 1]
       IN /\ IsPassedThrough(t)
          /\ fake_args' = Append(fake_args, [kind |-> t.kind, shape |-> <<>>])
    /\ UNCHANGED <<uvars, cvars, svars>>
    /\ UNCHANGED <<args, constraints, pc, t_constraints, sources, tracked_fakes,
                   debug_names, var_to_range, frozen, src_equalities, specialized,
                   gm_nodes, guards, solved, cve, forced, msg, raised, result>>

\* fakify on a leaf that is no tensor: ValueError, the export call ends.
FakifyInvalid ==
    /\ pc = "fakify"
    /\ Len(fake_args) < Len(args)
    /\ ~IsPassedThrough(args[Len(fake_args) + 1])
    /\ ~IsTensor(args[Len(fake_args) + 1])
    /\ pc' = "failed"
    /\ raised' = [isSet |-> TRUE, id |-> "ValueError",
                  msg |-> <<"Only tensors allowed as input">>]
    /\ UNCHANGED <<uvars, cvars, svars>>
    /\ UNCHANGED <<args, constraints, t_constraints, sources, fake_args, tracked_fakes,
                   debug_names, var_to_range, frozen, src_equalities, specialized,
                   gm_nodes, guards, solved, cve, forced, msg, result>>

\* fakify on a tensor leaf.
FakifyTensor ==
    /\ pc = "fakify"
    /\ Len(fake_args) < Len(args)
    /\ ~IsPassedThrough(args[Len(fake_args) + 1])
    /\ IsTensor(args[Len(fake_args) + 1])
    /\ LET t == args[Len(fake_args) + 1].id
           source == key_path_to_source(Len(fake_args))
           ctx == StatelessSymbolicContext(t_constraints, t)
       IN \E fake \in FromTensorChoices(tracked_fakes, t, ctx) :
             /\ sources' = FakifySources(sources, t_constraints, t, source)
             /\ debug_names' = FakifyDebugNames(debug_names, t_constraints, t, source)
             /\ tracked_fakes' = Append(tracked_fakes, TrackedFake(fake, source, ctx))
             /\ var_to_range' = VarToRange(tracked_fakes')
             /\ fake_args' = Append(fake_args, fake)
    /\ UNCHANGED <<uvars, cvars, svars>>
    /\ UNCHANGED <<args, constraints, pc, t_constraints, frozen, src_equalities,
                   specialized, gm_nodes, guards, solved, cve, forced, msg, raised,
                   result>>

\* Lines 123-130: one pair of sources per constraint that has a shared
\* counterpart; a (tensor, dim) no walked leaf registered is a KeyError.
SharedConstraints(cs) == SelectSeq(cs, LAMBDA c : c.shared # NoShared)

SrcEqualitiesOwnSide(cs, srcs) ==
    [k \in 1 .. Len(SharedConstraints(cs)) |->
        LET c == SharedConstraints(cs)[k]
        IN <<srcs[Key(c.t_id, c.dim)], srcs[Key(c.t_id, c.dim)]>>]

SrcEqualities(cs, srcs) ==
    [k \in 1 .. Len(SharedConstraints(cs)) |->
        LET c == SharedConstraints(cs)[k]
        IN <<srcs[Key(c.t_id, c.dim)], srcs[Key(c.shared.t_id, c.shared.dim)]>>]

SourcesResolved(cs, srcs) ==
    \A k \in 1 .. Len(cs) :
        cs[k].shared # NoShared =>
            /\ Key(cs[k].t_id, cs[k].dim) \in DOMAIN srcs
            /\ Key(cs[k].shared.t_id, cs[k].shared.dim) \in DOMAIN srcs

MakeFakeInputsReturn ==
    /\ pc = "fakify"
    /\ Len(fake_args) = Len(args)
    /\ SourcesResolved(constraints, sources)
    /\ src_equalities' = SrcEqualities(constraints, sources)
    /\ pc' = "mfi_done"
    /\ UNCHANGED <<uvars, cvars, svars>>
    /\ UNCHANGED <<args, constraints, t_constraints, sources, fake_args, tracked_fakes,
                   debug_names, var_to_range, frozen, specialized, gm_nodes, guards,
                   solved, cve, forced, msg, raised, result>>

MakeFakeInputsKeyError ==
    /\ pc = "fakify"
    /\ Len(fake_args) = Len(args)
    /\ ~SourcesResolved(constraints, sources)
    /\ pc' = "failed"
    /\ raised' = [isSet |-> TRUE, id |-> "KeyError", msg |-> <<"sources">>]
    /\ UNCHANGED <<uvars, cvars, svars>>
    /\ UNCHANGED <<args, constraints, t_constraints, sources, fake_args, tracked_fakes,
                   debug_names, var_to_range, frozen, src_equalities, specialized,
                   gm_nodes, guards, solved, cve, forced, msg, result>>

\* ------------------------------------------------------------------------
\* The tracer: the graph make_constraints is handed
\* ------------------------------------------------------------------------
\* A dimension as the graph shows it: a symbol the trace specialized reads as
\* the size of the real tensor.
Resolved(d, spec, size) == IF d.isSym /\ d.v \in spec THEN IntDim(size) ELSE d

PlaceholderVal(leaf, fake, spec) ==
    IF leaf.kind = "None" THEN [kind |-> "None", shape |-> <<>>]
    ELSE IF leaf.kind = "ScriptObject" THEN [kind |-> "CustomObjArgument", shape |-> <<>>]
    ELSE [kind |-> "Tensor",
          shape |-> [d \in 1 .. Len(fake.shape) |->
                        Resolved(fake.shape[d], spec, Shape(leaf.id)[d])]]

\* One placeholder per leaf, in tree-walk order and named by its position,
\* then an operation whose result has a derived size, then the output node.
TracedGraph(leaves, fakes, spec) ==
    [i \in 1 .. Len(leaves) |->
        [op |-> "placeholder", name |-> i - 1,
         val |-> PlaceholderVal(leaves[i], fakes[i], spec)]]
    \o <<[op |-> "call_function", name |-> Len(leaves),
          val |-> [kind |-> "Tensor", shape |-> <<SymDim(DerivedSymbol)>>]],
         [op |-> "output", name |-> Len(leaves) + 1,
          val |-> [kind |-> "None", shape |-> <<>>]]>>

Trace ==
    /\ pc = "mfi_done"
    /\ \E spec \in SUBSET UsedSymbols(tracked_fakes) :
          /\ specialized' = spec
          /\ gm_nodes' = TracedGraph(args, fake_args, spec)
    /\ var_to_range' = Put(var_to_range, DerivedSymbol, [lo |-> 2, hi |-> 99])
    /\ pc' = "traced"
    /\ UNCHANGED <<uvars, cvars, svars>>
    /\ UNCHANGED <<args, constraints, t_constraints, sources, fake_args, tracked_fakes,
                   debug_names, frozen, src_equalities, guards, solved, cve, forced,
                   msg, raised, result>>

\* ------------------------------------------------------------------------
\* make_constraints
\* ------------------------------------------------------------------------
\* The expression the shape environment holds for the dimension a source names.
ExprOfSource(tfs, leaves, spec, src) ==
    LET i == CHOOSE j \in 1 .. Len(tfs) : tfs[j].source.idx = src.idx
    IN Resolved(tfs[i].fake.shape[src.dim + 1], spec,
                Shape(leaves[src.idx + 1].id)[src.dim + 1])

\* produce_guards with strict equalities: a pair of sources whose expressions
\* differ is a constraint violation.
EqualityViolated(tfs, leaves, spec, eqs) ==
    \E k \in 1 .. Len(eqs) :
        ExprOfSource(tfs, leaves, spec, eqs[k][1]) # ExprOfSource(tfs, leaves, spec, eqs[k][2])

GuardOutcomes(tfs, leaves, spec, eqs) ==
    IF EqualityViolated(tfs, leaves, spec, eqs)
    THEN {"violation", "error"}
    ELSE {"ok", "violation", "error"}

\* Lines 141-156: the violation produce_guards raises is kept, any other
\* exception leaves the call at once.
ProduceGuards ==
    /\ pc = "traced"
    /\ \E outcome \in GuardOutcomes(tracked_fakes, args, specialized, src_equalities) :
          /\ guards' = outcome
          /\ cve' = IF outcome = "violation"
                    THEN [isSet |-> TRUE, id |-> "guard_violation",
                          msg |-> <<"Constraints violated">>]
                    ELSE NoError
          /\ pc' = IF outcome = "error" THEN "mc_error" ELSE "mc_guarded"
          /\ raised' = IF outcome = "error"
                       THEN [isSet |-> TRUE, id |-> "other_error", msg |-> <<>>]
                       ELSE raised
    /\ UNCHANGED <<uvars, cvars, svars>>
    /\ UNCHANGED <<args, constraints, t_constraints, sources, fake_args, tracked_fakes,
                   debug_names, var_to_range, frozen, src_equalities, specialized,
                   gm_nodes, solved, forced, msg, result>>

FreezeSkipped(f) == f

\* Line 158: shape_env.frozen = True.
Freeze(f) == TRUE

FreezeShapeEnv ==
    /\ pc = "mc_guarded"
    /\ frozen' = Freeze(frozen)
    /\ pc' = "mc_frozen"
    /\ UNCHANGED <<uvars, cvars, svars>>
    /\ UNCHANGED <<args, constraints, t_constraints, sources, fake_args, tracked_fakes,
                   debug_names, var_to_range, src_equalities, specialized, gm_nodes,
                   guards, solved, cve, forced, msg, raised, result>>

\* dim_constraints.forced_specializations(): the symbols of declared-dynamic
\* dimensions that the solver found to be a constant.
ForcedSpecializations(tfs, spec) == spec \cap UsedSymbols(tfs)

\* dim_constraints.prettify_results: the rendered summary.
PrettifyResults(err, fs) == <<[summary_of |-> err.id, forced |-> fs]>>

\* Lines 159-165: solve, drop redundant results, render the summary.
Solve ==
    /\ pc = "mc_frozen"
    /\ solved' = TRUE
    /\ forced' = ForcedSpecializations(tracked_fakes, specialized)
    /\ msg' = PrettifyResults(cve, forced')
    /\ pc' = "mc_solved"
    /\ UNCHANGED <<uvars, cvars, svars>>
    /\ UNCHANGED <<args, constraints, t_constraints, sources, fake_args, tracked_fakes,
                   debug_names, var_to_range, frozen, src_equalities, specialized,
                   gm_nodes, guards, cve, raised, result>>

FinalErrorNoAppend(err, fs, m) ==
    IF err.isSet THEN err
    ELSE IF fs # {} THEN [isSet |-> TRUE, id |-> "forced_specialization", msg |-> m]
    ELSE err

FinalErrorForcedIgnored(err, fs, m) ==
    IF err.isSet THEN [err EXCEPT !.msg = err.msg \o m] ELSE err

\* Lines 166-169: the violation with the summary appended, else a new
\* violation carrying the summary when a specialization was forced.
FinalError(err, fs, m) ==
    IF err.isSet THEN [err EXCEPT !.msg = err.msg \o m]
    ELSE IF fs # {} THEN [isSet |-> TRUE, id |-> "forced_specialization", msg |-> m]
    ELSE err

\* Lines 170-171.
MakeConstraintsRaise ==
    /\ pc = "mc_solved"
    /\ FinalError(cve, forced, msg).isSet
    /\ cve' = FinalError(cve, forced, msg)
    /\ raised' = cve'
    /\ pc' = "mc_raised"
    /\ UNCHANGED <<uvars, cvars, svars>>
    /\ UNCHANGED <<args, constraints, t_constraints, sources, fake_args, tracked_fakes,
                   debug_names, var_to_range, frozen, src_equalities, specialized,
                   gm_nodes, guards, solved, forced, msg, result>>

InputDim(name, i) == [input_name |-> name, dim |-> i]

\* input_dims[expr].append(x) on a defaultdict(list): keys keep insertion order.
BucketAppend(buckets, e, x) ==
    IF \E k \in 1 .. Len(buckets) : buckets[k].expr = e
    THEN [k \in 1 .. Len(buckets) |->
            IF buckets[k].expr = e
            THEN [expr |-> e, dims |-> Append(buckets[k].dims, x)]
            ELSE buckets[k]]
    ELSE Append(buckets, [expr |-> e, dims |-> <<x>>])

IsWalkedAnyNode(node) == node.val.kind \notin {"None", "CustomObjArgument"}

\* Lines 176-179: only placeholders with a tensor value are walked.
IsWalked(node) ==
    /\ node.op = "placeholder"
    /\ node.val.kind \notin {"None", "CustomObjArgument"}

\* Lines 180-183 for one node.
RECURSIVE WalkDims(_, _, _, _)
WalkDims(node, i, acc, v2r) ==
    IF i > Len(node.val.shape) THEN acc
    ELSE LET d == node.val.shape[i]
         IN IF d.isSym
            THEN WalkDims(node, i + 1,
                          [range_constraints |-> Put(acc.range_constraints, d.v, v2r[d.v]),
                           input_dims |-> BucketAppend(acc.input_dims, d.v,
                                                       InputDim(node.name, i - 1))],
                          v2r)
            ELSE WalkDims(node, i + 1, acc, v2r)

\* Lines 173-183.
RECURSIVE WalkNodes(_, _, _, _)
WalkNodes(nodes, n, acc, v2r) ==
    IF n > Len(nodes) THEN acc
    ELSE IF IsWalked(nodes[n])
    THEN WalkNodes(nodes, n + 1, WalkDims(nodes[n], 1, acc, v2r), v2r)
    ELSE WalkNodes(nodes, n + 1, acc, v2r)

OthersOfChained(dims) == [j \in 1 .. (Len(dims) - 1) |-> <<dims[j], dims[j + 1]>>]

\* Lines 187-189: primary, *others = equal_input_dims; (primary, other) each.
OthersOf(dims) == [j \in 1 .. (Len(dims) - 1) |-> <<dims[1], dims[j + 1]>>]

\* Lines 185-189.
RECURSIVE EqualityConstraints(_, _)
EqualityConstraints(buckets, k) ==
    IF k > Len(buckets) THEN <<>>
    ELSE OthersOf(buckets[k].dims) \o EqualityConstraints(buckets, k + 1)

\* Lines 173-191.
MakeConstraintsReturn ==
    /\ pc = "mc_solved"
    /\ ~FinalError(cve, forced, msg).isSet
    /\ LET walk == WalkNodes(gm_nodes, 1,
                             [range_constraints |-> EmptyMap, input_dims |-> <<>>],
                             var_to_range)
       IN result' = [isSet |-> TRUE,
                     range_constraints |-> walk.range_constraints,
                     equality_constraints |-> EqualityConstraints(walk.input_dims, 1)]
    /\ pc' = "mc_returned"
    /\ UNCHANGED <<uvars, cvars, svars>>
    /\ UNCHANGED <<args, constraints, t_constraints, sources, fake_args, tracked_fakes,
                   debug_names, var_to_range, frozen, src_equalities, specialized,
                   gm_nodes, guards, solved, cve, forced, msg, raised>>

NextMC ==
    \/ MakeFakeInputsBegin
    \/ FakifyPassThrough
    \/ FakifyInvalid
    \/ FakifyTensor
    \/ MakeFakeInputsReturn
    \/ MakeFakeInputsKeyError
    \/ Trace
    \/ ProduceGuards
    \/ FreezeShapeEnv
    \/ Solve
    \/ MakeConstraintsRaise
    \/ MakeConstraintsReturn

SpecMC == InitMC /\ [][NextMC]_vars

\* ------------------------------------------------------------------------
\* Properties of make_fake_inputs and make_constraints
\* ------------------------------------------------------------------------
MCLeft == {"mc_raised", "mc_returned", "mc_error"}

\* C1: when produce_guards raises a constraint violation the call goes on: the
\* violation leaves the call only after the shape environment was frozen and
\* the solver ran, it is the same exception with the rendered summary appended
\* to its message, and nothing is returned on that path.
C1_ViolationRaisedAfterSolve ==
    guards = "violation" =>
        /\ pc \in {"mc_guarded", "mc_frozen", "mc_solved", "mc_raised"}
        /\ ~result.isSet
        /\ (pc # "mc_raised" => ~raised.isSet)
        /\ (pc = "mc_raised" =>
              /\ frozen
              /\ solved
              /\ raised.isSet
              /\ raised.id = "guard_violation"
              /\ raised.msg = <<"Constraints violated">> \o msg
              /\ Len(msg) > 0)

C1_Witness == guards = "violation" /\ pc = "mc_raised"

\* C2: with no violation from produce_guards but at least one forced
\* specialization, make_constraints raises a violation whose message is the
\* rendered summary and returns nothing; it returns only when there is neither
\* a violation nor a forced specialization.
C2_ForcedSpecializationRaises ==
    /\ (pc \in MCLeft /\ guards = "ok" /\ forced # {}) =>
          /\ pc = "mc_raised"
          /\ raised.isSet
          /\ raised.id = "forced_specialization"
          /\ raised.msg = msg
          /\ ~result.isSet
    /\ (result.isSet \/ pc = "mc_returned") =>
          /\ guards = "ok"
          /\ forced = {}
          /\ ~raised.isSet

C2_Witness == pc = "mc_raised" /\ guards = "ok" /\ forced # {} /\ solved

MCSteps == {"traced", "mc_guarded", "mc_frozen", "mc_solved"} \cup MCLeft

\* C3: once produce_guards has returned or raised a violation the frozen flag
\* is set before the solver runs, it is never cleared again, and no step of
\* make_constraints changes the tracked-fake list.
C3_FrozenBeforeSolveAndForGood ==
    /\ [](pc \in {"mc_frozen", "mc_solved", "mc_raised", "mc_returned"} => frozen)
    /\ [](solved => frozen)
    /\ [](frozen => guards \in {"ok", "violation"})
    /\ [][frozen => frozen']_vars
    /\ [][(pc \in MCSteps) => (tracked_fakes' = tracked_fakes)]_vars

C3_Witness == pc \in {"mc_raised", "mc_returned"} /\ frozen /\ solved /\ Len(tracked_fakes) > 0

\* The (node, dimension) positions of the tensor-valued input nodes of a graph.
GraphInputPositions(nodes) ==
    {p \in (1 .. Len(nodes)) \X {1, 2} :
        /\ nodes[p[1]].op = "placeholder"
        /\ nodes[p[1]].val.kind = "Tensor"
        /\ p[2] <= Len(nodes[p[1]].val.shape)}

GraphInputSymbols(nodes) ==
    {nodes[p[1]].val.shape[p[2]].v :
        p \in {q \in GraphInputPositions(nodes) : nodes[q[1]].val.shape[q[2]].isSym}}

\* The input dimensions of the graph that carry symbol e.
InputDimsOfSymbol(nodes, e) ==
    {InputDim(nodes[p[1]].name, p[2] - 1) :
        p \in {q \in GraphInputPositions(nodes) : nodes[q[1]].val.shape[q[2]] = SymDim(e)}}

\* Graph input order: by input, then by dimension index.
SeenBefore(x, y) ==
    \/ x.input_name < y.input_name
    \/ (x.input_name = y.input_name /\ x.dim < y.dim)

FirstSeen(S) == CHOOSE x \in S : \A y \in S \ {x} : SeenBefore(x, y)

\* C4: a bucket of k input dimensions yields exactly the k-1 pairs
\* (first, other), first being the dimension seen first in graph input order
\* and the others following in insertion order; a bucket of one yields none.
C4_BucketEqualities ==
    pc = "mc_returned" =>
        LET ec == result.equality_constraints
        IN /\ \A e \in GraphInputSymbols(gm_nodes) :
                LET bucket == InputDimsOfSymbol(gm_nodes, e)
                    first == FirstSeen(bucket)
                    mine == SelectSeq(ec, LAMBDA pr : pr[1] = first)
                IN /\ Len(mine) = Cardinality(bucket) - 1
                   /\ {mine[j][2] : j \in 1 .. Len(mine)} = bucket \ {first}
                   /\ \A i, j \in 1 .. Len(mine) :
                         i < j => SeenBefore(mine[i][2], mine[j][2])
           /\ \A j \in 1 .. Len(ec) :
                \E e \in GraphInputSymbols(gm_nodes) :
                    ec[j][1] = FirstSeen(InputDimsOfSymbol(gm_nodes, e))

C4_Witness ==
    /\ pc = "mc_returned"
    /\ Len(result.equality_constraints) >= 2
    /\ result.equality_constraints[1][1] = result.equality_constraints[2][1]

\* The input dimensions linked to x by a list of equality constraints.
RECURSIVE Linked(_, _, _)
Linked(ec, S, n) ==
    IF n = 0 THEN S
    ELSE Linked(ec,
                S \cup {ec[j][2] : j \in {i \in 1 .. Len(ec) : ec[i][1] \in S}}
                  \cup {ec[j][1] : j \in {i \in 1 .. Len(ec) : ec[i][2] \in S}},
                n - 1)

SourceDim(src) == InputDim(src.idx, src.dim)

\* C5: make_fake_inputs records one pair of sources per constraint with a
\* shared counterpart, the sides naming that constraint's own dimension and
\* its counterpart's on a leaf holding the tensor; when make_constraints
\* succeeds the two input dimensions of each pair are linked by the returned
\* equality constraints.
C5_SharedPairsLinked ==
    /\ pc \notin {"mfi_start", "fakify", "failed"} =>
          /\ Len(src_equalities) = Cardinality({k \in 1 .. Len(constraints) :
                                                   constraints[k].shared # NoShared})
          /\ \A k \in 1 .. Len(src_equalities) :
                \E c \in {constraints[j] : j \in 1 .. Len(constraints)} :
                    /\ c.shared # NoShared
                    /\ src_equalities[k][1].prop = "size"
                    /\ src_equalities[k][2].prop = "size"
                    /\ args[src_equalities[k][1].idx + 1] = LeafTensor(c.t_id)
                    /\ src_equalities[k][1].dim = c.dim
                    /\ args[src_equalities[k][2].idx + 1] = LeafTensor(c.shared.t_id)
                    /\ src_equalities[k][2].dim = c.shared.dim
    /\ pc = "mc_returned" =>
          \A k \in 1 .. Len(src_equalities) :
              SourceDim(src_equalities[k][2]) \in
                  Linked(result.equality_constraints,
                         {SourceDim(src_equalities[k][1])},
                         Len(result.equality_constraints))

C5_Witness ==
    /\ pc = "mc_returned"
    /\ Len(src_equalities) > 0
    /\ src_equalities[1][1] # src_equalities[1][2]

\* C6: on success range_constraints has an entry for exactly the symbols that
\* occur as a dimension of an input node with a tensor value, each entry being
\* the range the shape environment holds for the symbol.
C6_RangeConstraintsOfInputSymbols ==
    pc = "mc_returned" =>
        /\ frozen
        /\ DOMAIN result.range_constraints = GraphInputSymbols(gm_nodes)
        /\ \A e \in DOMAIN result.range_constraints :
              result.range_constraints[e] = var_to_range[e]

C6_Witness ==
    /\ pc = "mc_returned"
    /\ DOMAIN result.range_constraints # {}
    /\ \E p \in GraphInputPositions(gm_nodes) : ~gm_nodes[p[1]].val.shape[p[2]].isSym
    /\ \E n \in 1 .. Len(gm_nodes) :
          gm_nodes[n].op = "placeholder" /\ gm_nodes[n].val.kind # "Tensor"

\* ------------------------------------------------------------------------
\* The unlift rewriter: names, signature and graph
\* ------------------------------------------------------------------------
\* Names are sequences of characters: "a.b", "a_b", "c", "d".
NameAdotB == <<"a", ".", "b">>

NameAunderB == <<"a", "_", "b">>

NameP == <<"p">>

NameD == <<"d">>

NoName == [isSet |-> FALSE, name |-> <<>>]

Named(n) == [isSet |-> TRUE, name |-> n]

\* name.replace(".", "_")
Norm(n) == [i \in 1 .. Len(n) |-> IF n[i] = "." THEN "_" ELSE n[i]]

Digit(i) == CASE i = 1 -> "1" [] i = 2 -> "2" [] i = 3 -> "3" [] OTHER -> "4"

\* The name of the i-th input node of the lifted graph.
PlaceholderName(i) == <<"x", Digit(i)>>

InputSpecs ==
    {[kind |-> "USER_INPUT", target |-> NoName],
     [kind |-> "BUFFER", target |-> Named(NameAdotB)],
     [kind |-> "PARAMETER", target |-> Named(NameP)],
     [kind |-> "CONSTANT_TENSOR", target |-> Named(NameAunderB)],
     [kind |-> "CUSTOM_OBJ", target |-> Named(NameD)]}

OutputSpecs ==
    {[kind |-> "USER_OUTPUT", target |-> NoName],
     [kind |-> "BUFFER_MUTATION", target |-> Named(NameAdotB)],
     [kind |-> "USER_INPUT_MUTATION", target |-> Named(PlaceholderName(1))]}

Node(id, op, name, target, nargs, meta) ==
    [id |-> id, op |-> op, name |-> name, target |-> target, args |-> nargs,
     meta |-> meta]

CopyTarget == <<"c", "o", "p", "y", "_">>

\* A lifted graph with n input nodes and m returned values: value j is computed
\* from input ((j - 1) mod n) + 1 and from value j - 1.
LiftedGraph(n, m) ==
    [i \in 1 .. n |->
        Node(i, "placeholder", PlaceholderName(i), PlaceholderName(i), <<>>, 10 + i)]
    \o [j \in 1 .. m |->
        Node(n + j, "call_function", <<"o", "p", Digit(j)>>, <<"a", "d", "d">>,
             <<((j - 1) % n) + 1>> \o (IF j > 1 THEN <<n + j - 1>> ELSE <<>>), 0)]
    \o <<Node(n + m + 1, "output", <<"o", "u", "t">>, <<"o", "u", "t">>,
              [j \in 1 .. m |-> n + j], 0)>>

Programs ==
    {[nodes |-> LiftedGraph(n, m), input_specs |-> ins, output_specs |-> outs] :
        n \in 1 .. MaxInputs, m \in 0 .. MaxOutputs,
        ins \in SeqsUpTo(InputSpecs, MaxInputs),
        outs \in SeqsUpTo(OutputSpecs, MaxOutputs)}

\* ------------------------------------------------------------------------
\* Graph editing
\* ------------------------------------------------------------------------
IndexOf(nodes, id) == CHOOSE k \in 1 .. Len(nodes) : nodes[k].id = id

InsertAt(nodes, k, node) ==
    SubSeq(nodes, 1, k - 1) \o <<node>> \o SubSeq(nodes, k, Len(nodes))

InsertAfter(nodes, id, node) == InsertAt(nodes, IndexOf(nodes, id) + 1, node)

InsertBefore(nodes, id, node) == InsertAt(nodes, IndexOf(nodes, id), node)

ReplaceAllUsesWith(nodes, old, new) ==
    [k \in 1 .. Len(nodes) |->
        [nodes[k] EXCEPT !.args = [a \in 1 .. Len(@) |-> IF @[a] = old THEN new ELSE @[a]]]]

EraseNode(nodes, id) == SelectSeq(nodes, LAMBDA x : x.id # id)

SetMeta(nodes, id, meta) ==
    [k \in 1 .. Len(nodes) |-> IF nodes[k].id = id THEN [nodes[k] EXCEPT !.meta = meta]
                               ELSE nodes[k]]

Users(nodes, id) ==
    {nodes[k].id : k \in {j \in 1 .. Len(nodes) :
                             \E a \in 1 .. Len(nodes[j].args) : nodes[j].args[a] = id}}

PlaceholderNodes(nodes) == SelectSeq(nodes, LAMBDA x : x.op = "placeholder")

FreshId(nodes) == 1 + Max({nodes[k].id : k \in 1 .. Len(nodes)})

\* ------------------------------------------------------------------------
\* _unlift_exported_program_lifted_states: the lists derived from the signature
\* ------------------------------------------------------------------------
LiftedKindsNoCustomObj == {"BUFFER", "CONSTANT_TENSOR", "PARAMETER"}

LiftedKinds == {"BUFFER", "CONSTANT_TENSOR", "PARAMETER", "CUSTOM_OBJ"}

MutationKinds == {"BUFFER_MUTATION", "USER_INPUT_MUTATION"}

LiftedInputs(specs) ==
    [k \in 1 .. Len(specs) |->
        IF specs[k].kind \in LiftedKinds THEN specs[k].target ELSE NoName]

MutatedOutputs(specs) ==
    [k \in 1 .. Len(specs) |->
        IF specs[k].kind \in MutationKinds THEN specs[k].target ELSE NoName]

\* The state_dict and constants of a frozen program hold its signature's
\* parameters and buffers, and its constants, under their target names.
StateDictKeys(specs) ==
    SelectSeq([k \in 1 .. Len(specs) |-> specs[k]],
              LAMBDA x : x.kind \in {"BUFFER", "PARAMETER"})

ConstantKeys(specs) ==
    SelectSeq([k \in 1 .. Len(specs) |-> specs[k]],
              LAMBDA x : x.kind \in {"CONSTANT_TENSOR", "CUSTOM_OBJ"})

\* _register_attrs_to_new_gm: every entry is registered under its normalized
\* name; a later entry replaces an earlier one of the same normalized name.
RECURSIVE RegisterAll(_, _, _, _)
RegisterAll(attrs, entries, k, how) ==
    IF k > Len(entries) THEN attrs
    ELSE RegisterAll(Put(attrs, Norm(entries[k].target.name),
                         [how |-> IF how = "state" THEN entries[k].kind ELSE how,
                          key |-> entries[k].target.name]),
                     entries, k + 1, how)

RegisterAttrsToNewGm(specs) ==
    RegisterAll(RegisterAll(EmptyMap, StateDictKeys(specs), 1, "state"),
                ConstantKeys(specs), 1, "setattr")

\* ------------------------------------------------------------------------
\* _unlift_inputs_as_getattr
\* ------------------------------------------------------------------------
InputCountUnchecked(lifted, phs) == TRUE

\* Line 48.
InputCountAgrees(lifted, phs) == Len(lifted) = Len(phs)

ZipLen(a, b) == IF Len(a) <= Len(b) THEN Len(a) ELSE Len(b)

\* Lines 49-60, from the k-th pair of zip(placeholder_nodes, lifted_inputs) on.
RECURSIVE UnliftInputsFrom(_, _, _, _)
UnliftInputsFrom(st, phs, lifted, k) ==
    IF k > ZipLen(phs, lifted) THEN st
    ELSE LET input_node == phs[k]
             lifted_node == lifted[k]
         IN IF ~lifted_node.isSet
            THEN UnliftInputsFrom(
                    [st EXCEPT !.inputs = Put(@, input_node.name, input_node.id)],
                    phs, lifted, k + 1)
            ELSE LET getattr_node ==
                        Node(st.next, "get_attr", Norm(lifted_node.name),
                             Norm(lifted_node.name), <<>>, 0)
                     inserted == InsertAfter(st.nodes, input_node.id, getattr_node)
                     replaced == ReplaceAllUsesWith(inserted, input_node.id, st.next)
                     erased == EraseNode(replaced, input_node.id)
                 IN UnliftInputsFrom(
                        [nodes |-> SetMeta(erased, st.next, input_node.meta),
                         unlifted |-> Put(st.unlifted, Norm(lifted_node.name), st.next),
                         inputs |-> st.inputs,
                         next |-> st.next + 1],
                        phs, lifted, k + 1)

\* Lines 44-62.
UnliftInputsAsGetattr(nodes, lifted, next) ==
    LET start == [nodes |-> nodes, unlifted |-> EmptyMap, inputs |-> EmptyMap,
                  next |-> next]
    IN IF ~InputCountAgrees(lifted, PlaceholderNodes(nodes))
       THEN [ok |-> FALSE, err |-> "AssertionError: input count", st |-> start]
       ELSE [ok |-> TRUE, err |-> "none",
             st |-> UnliftInputsFrom(start, PlaceholderNodes(nodes), lifted, 1)]

\* ------------------------------------------------------------------------
\* _insert_copy_for_mutations
\* ------------------------------------------------------------------------
\* Lines 75-80: the first output node of the graph.
OutputNode(nodes) ==
    nodes[CHOOSE k \in 1 .. Len(nodes) :
            /\ nodes[k].op = "output"
            /\ \A j \in 1 .. (k - 1) : nodes[j].op # "output"]

OutputCountUnchecked(outputs, mutated) == TRUE

\* Line 82.
OutputCountAgrees(outputs, mutated) == Len(outputs) = Len(mutated)

\* Lines 90-98: the unlifted attribute node first, then the retained input.
MutatedNode(maps, name) ==
    IF name \in DOMAIN maps.unlifted THEN [found |-> TRUE, id |-> maps.unlifted[name]]
    ELSE IF name \in DOMAIN maps.inputs THEN [found |-> TRUE, id |-> maps.inputs[name]]
    ELSE [found |-> FALSE, id |-> 0]

CopyArgsSwapped(mutated_node, return_node) == <<return_node, mutated_node>>

\* Lines 101-103: copy_(mutated_node, return_node).
CopyArgs(mutated_node, return_node) == <<mutated_node, return_node>>

\* Lines 85-103, from the k-th pair of zip(outputs, mutated_outputs) on.
RECURSIVE InsertCopiesFrom(_, _, _, _, _, _)
InsertCopiesFrom(st, outputs, mutated, maps, output_id, k) ==
    IF k > ZipLen(outputs, mutated) THEN st
    ELSE LET return_node == outputs[k]
             mutated_node_name == mutated[k]
         IN IF ~mutated_node_name.isSet
            THEN InsertCopiesFrom(
                    [st EXCEPT !.user_output_nodes = Append(@, return_node)],
                    outputs, mutated, maps, output_id, k + 1)
            ELSE LET mutated_node == MutatedNode(maps, Norm(mutated_node_name.name))
                 IN IF ~mutated_node.found
                    THEN [st EXCEPT !.ok = FALSE,
                                    !.err = "RuntimeError: mutation target not found"]
                    ELSE InsertCopiesFrom(
                            [st EXCEPT
                                !.nodes = InsertBefore(
                                    @, output_id,
                                    Node(st.next, "call_function", <<"c", "p", "y">>,
                                         CopyTarget,
                                         CopyArgs(mutated_node.id, return_node), 0)),
                                !.next = @ + 1],
                            outputs, mutated, maps, output_id, k + 1)

\* Lines 75-109.
InsertCopyForMutations(nodes, mutated, maps, next) ==
    LET output_node == OutputNode(nodes)
        outputs == output_node.args
        start == [ok |-> TRUE, err |-> "none", nodes |-> nodes,
                  user_output_nodes |-> <<>>, next |-> next]
    IN IF ~OutputCountAgrees(outputs, mutated)
       THEN [start EXCEPT !.ok = FALSE, !.err = "AssertionError: output count"]
       ELSE LET st == InsertCopiesFrom(start, outputs, mutated, maps, output_node.id, 1)
            IN IF ~st.ok THEN st
               ELSE [st EXCEPT
                        !.nodes = EraseNode(
                            InsertBefore(@, output_node.id,
                                         Node(st.next, "output", <<"o", "u", "t">>,
                                              <<"o", "u", "t">>, st.user_output_nodes, 0)),
                            output_node.id),
                        !.next = @ + 1]

\* ------------------------------------------------------------------------
\* _unlift: lint, dead code elimination
\* ------------------------------------------------------------------------
\* graph.lint(): every argument is defined earlier in the graph and every
\* attribute reference names an attribute of the owning module.
Lint(nodes, attrs) ==
    \A k \in 1 .. Len(nodes) :
        /\ \A a \in 1 .. Len(nodes[k].args) :
              \E j \in 1 .. (k - 1) : nodes[j].id = nodes[k].args[a]
        /\ nodes[k].op = "get_attr" => nodes[k].target \in DOMAIN attrs

\* Node.is_impure(): input and output nodes, and copy_.
Impure(node) ==
    \/ node.op \in {"placeholder", "output"}
    \/ (node.op = "call_function" /\ node.target = CopyTarget)

\* graph.eliminate_dead_code(): in reverse order, drop the pure nodes nobody uses.
RECURSIVE EliminateDeadCode(_, _)
EliminateDeadCode(nodes, k) ==
    IF k = 0 THEN nodes
    ELSE IF ~Impure(nodes[k]) /\ Users(nodes, nodes[k].id) = {}
    THEN EliminateDeadCode(EraseNode(nodes, nodes[k].id), k - 1)
    ELSE EliminateDeadCode(nodes, k - 1)

\* Lines 165-175: _unlift on a graph module, as one function.
Unlift(nodes, attrs, lifted, mutated) ==
    LET ins == UnliftInputsAsGetattr(nodes, lifted, FreshId(nodes))
    IN IF ~ins.ok THEN [ok |-> FALSE, err |-> ins.err, nodes |-> ins.st.nodes]
       ELSE LET outs == InsertCopyForMutations(ins.st.nodes, mutated, ins.st, ins.st.next)
            IN IF ~outs.ok THEN [ok |-> FALSE, err |-> outs.err, nodes |-> outs.nodes]
               ELSE IF ~Lint(outs.nodes, attrs)
               THEN [ok |-> FALSE, err |-> "RuntimeError: lint", nodes |-> outs.nodes]
               ELSE [ok |-> TRUE, err |-> "none",
                     nodes |-> EliminateDeadCode(outs.nodes, Len(outs.nodes))]

\* ------------------------------------------------------------------------
\* The unlift call, step by step
\* ------------------------------------------------------------------------
MCIdle ==
    /\ args = <<>>
    /\ constraints = <<>>
    /\ pc = "idle"
    /\ t_constraints = EmptyMap
    /\ sources = EmptyMap
    /\ fake_args = <<>>
    /\ tracked_fakes = <<>>
    /\ debug_names = EmptyMap
    /\ var_to_range = EmptyMap
    /\ frozen = FALSE
    /\ src_equalities = <<>>
    /\ specialized = {}
    /\ gm_nodes = <<>>
    /\ guards = "none"
    /\ solved = FALSE
    /\ cve = NoError
    /\ forced = {}
    /\ msg = <<>>
    /\ raised = NoError
    /\ result = [isSet |-> FALSE, range_constraints |-> EmptyMap,
                 equality_constraints |-> <<>>]

\* The frozen program as an object: its graph module's graph, its signature,
\* and the keys of its state_dict and constants.
OriginalOf(e) ==
    [graph |-> e.nodes, input_specs |-> e.input_specs,
     output_specs |-> e.output_specs,
     state_dict |-> {StateDictKeys(e.input_specs)[k].target.name :
                        k \in 1 .. Len(StateDictKeys(e.input_specs))},
     constants |-> {ConstantKeys(e.input_specs)[k].target.name :
                        k \in 1 .. Len(ConstantKeys(e.input_specs))}]

\* A graph module that shares the original's graph instead of copying it.
SharedGraphModule(obj) == obj

\* copy.deepcopy(ep.graph_module): a new object.
DeepCopy(obj) == obj + 1

\* A rewrite of the graph of module obj reaches the original program exactly
\* when obj is the original's graph module.
GraphWrite(o, obj, nodes) ==
    IF obj = OrigGraphModule THEN [o EXCEPT !.graph = nodes] ELSE o

InitUnlift ==
    /\ MCIdle
    /\ CallIdle
    /\ SerdeIdle
    /\ ep \in Programs
    /\ orig = OriginalOf(ep)
    /\ upc = "lifted"
    /\ new_gm = NoModule
    /\ umaps = NoMaps
    /\ uerr = "none"
    /\ again = NoSecondRun

\* Lines 234-235: the graph module is copied and the attributes registered.
CopyAndRegister ==
    /\ upc = "lifted"
    /\ new_gm' = [obj |-> DeepCopy(OrigGraphModule),
                  nodes |-> orig.graph,
                  attrs |-> RegisterAttrsToNewGm(orig.input_specs),
                  hooked |-> FALSE]
    /\ umaps' = [NoMaps EXCEPT !.next = FreshId(orig.graph)]
    /\ upc' = "registered"
    /\ UNCHANGED <<ep, orig, uerr, again>>
    /\ UNCHANGED <<mcvars, cvars, svars>>

\* Lines 237-248 and 165-167.
UnliftInputs ==
    /\ upc = "registered"
    /\ LET r == UnliftInputsAsGetattr(new_gm.nodes, LiftedInputs(ep.input_specs),
                                      umaps.next)
       IN /\ new_gm' = [new_gm EXCEPT !.nodes = r.st.nodes]
          /\ umaps' = [unlifted |-> r.st.unlifted, inputs |-> r.st.inputs,
                       next |-> r.st.next]
          /\ uerr' = r.err
          /\ upc' = IF r.ok THEN "inputs_done" ELSE "failed"
          /\ orig' = GraphWrite(orig, new_gm.obj, r.st.nodes)
    /\ UNCHANGED <<ep, again>>
    /\ UNCHANGED <<mcvars, cvars, svars>>

\* Lines 250-255 and 168-170.
InsertCopies ==
    /\ upc = "inputs_done"
    /\ LET r == InsertCopyForMutations(new_gm.nodes, MutatedOutputs(ep.output_specs),
                                       umaps, umaps.next)
       IN /\ new_gm' = [new_gm EXCEPT !.nodes = r.nodes]
          /\ umaps' = [umaps EXCEPT !.next = r.next]
          /\ uerr' = r.err
          /\ upc' = IF r.ok THEN "copies_done" ELSE "failed"
          /\ orig' = GraphWrite(orig, new_gm.obj, r.nodes)
    /\ UNCHANGED <<ep, again>>
    /\ UNCHANGED <<mcvars, cvars, svars>>

\* Lines 171-175 and 266-268: lint, dead code elimination, recompilation, and
\* the stateful module with its pre-call hook.
FinishUnlift ==
    /\ upc = "copies_done"
    /\ IF Lint(new_gm.nodes, new_gm.attrs)
       THEN /\ new_gm' = [new_gm EXCEPT
                            !.nodes = EliminateDeadCode(@, Len(@)),
                            !.hooked = TRUE]
            /\ upc' = "unlifted"
            /\ uerr' = uerr
       ELSE /\ new_gm' = new_gm
            /\ upc' = "failed"
            /\ uerr' = "RuntimeError: lint"
    /\ orig' = GraphWrite(orig, new_gm.obj, new_gm'.nodes)
    /\ UNCHANGED <<ep, umaps, again>>
    /\ UNCHANGED <<mcvars, cvars, svars>>

\* _unlift applied once more to the module it produced, with the same lists.
UnliftAgain ==
    /\ upc = "unlifted"
    /\ LET r == Unlift(new_gm.nodes, new_gm.attrs, LiftedInputs(ep.input_specs),
                       MutatedOutputs(ep.output_specs))
       IN again' = [done |-> TRUE, ok |-> r.ok, err |-> r.err, nodes |-> r.nodes]
    /\ upc' = "again_done"
    /\ UNCHANGED <<ep, orig, new_gm, umaps, uerr>>
    /\ UNCHANGED <<mcvars, cvars, svars>>

NextUnlift ==
    \/ CopyAndRegister
    \/ UnliftInputs
    \/ InsertCopies
    \/ FinishUnlift
    \/ UnliftAgain

SpecUnlift == InitUnlift /\ [][NextUnlift]_vars

\* ------------------------------------------------------------------------
\* Properties of unlift
\* ------------------------------------------------------------------------
Ids(nodes) == {nodes[k].id : k \in 1 .. Len(nodes)}

NodeOf(nodes, id) == nodes[IndexOf(nodes, id)]

\* n is name with every "." replaced by "_".
IsFlatNameOf(n, name) ==
    /\ Len(n) = Len(name)
    /\ \A i \in 1 .. Len(name) :
          IF name[i] = "." THEN n[i] = "_" ELSE n[i] = name[i]

IsLiftedSpec(spec) ==
    spec.kind \in {"BUFFER", "PARAMETER", "CONSTANT_TENSOR", "CUSTOM_OBJ"}

IsMutationSpec(spec) == spec.kind \in {"BUFFER_MUTATION", "USER_INPUT_MUTATION"}

Unlifted == upc \in {"unlifted", "again_done"}

\* C7: after a successful unlift every input node whose spec is a buffer,
\* parameter, constant tensor or custom object is gone, each of its uses refers
\* to a new attribute-reference node named by the flattened target and carrying
\* its metadata, and the other input nodes remain, in their original order.
C7_LiftedInputsBecomeAttributes ==
    Unlifted =>
        LET phs == PlaceholderNodes(ep.nodes)
            fin == new_gm.nodes
        IN /\ Len(ep.input_specs) = Len(phs)
           /\ \A k \in 1 .. Len(phs) :
                IF IsLiftedSpec(ep.input_specs[k])
                THEN /\ phs[k].id \notin Ids(fin)
                     /\ \A u \in 1 .. Len(ep.nodes) :
                          \A a \in 1 .. Len(ep.nodes[u].args) :
                             (ep.nodes[u].args[a] = phs[k].id
                                 /\ ep.nodes[u].id \in Ids(fin)) =>
                                LET g == NodeOf(fin, ep.nodes[u].id).args[a]
                                IN /\ g \in Ids(fin) \ Ids(ep.nodes)
                                   /\ NodeOf(fin, g).op = "get_attr"
                                   /\ IsFlatNameOf(NodeOf(fin, g).target,
                                                   ep.input_specs[k].target.name)
                                   /\ NodeOf(fin, g).meta = phs[k].meta
                ELSE /\ phs[k].id \in Ids(fin)
                     /\ NodeOf(fin, phs[k].id) = phs[k]
           /\ PlaceholderNodes(fin) =
                 SelectSeq(phs, LAMBDA x :
                     \E k \in 1 .. Len(phs) :
                         phs[k] = x /\ ~IsLiftedSpec(ep.input_specs[k]))

C7_Witness ==
    /\ upc = "unlifted"
    /\ Len(PlaceholderNodes(new_gm.nodes)) > 0
    /\ \E k \in 1 .. Len(new_gm.nodes) :
          /\ new_gm.nodes[k].op = "get_attr"
          /\ new_gm.nodes[k].target = NameAunderB
          /\ new_gm.nodes[k].meta # 0
          /\ Users(new_gm.nodes, new_gm.nodes[k].id) # {}
    /\ \E k \in 1 .. Len(ep.input_specs) : ep.input_specs[k].target = Named(NameAdotB)

MutationPositions(specs) ==
    SelectSeq([k \in 1 .. Len(specs) |-> k], LAMBDA k : IsMutationSpec(specs[k]))

UserPositions(specs) ==
    SelectSeq([k \in 1 .. Len(specs) |-> k], LAMBDA k : ~IsMutationSpec(specs[k]))

CopyNodes(nodes) ==
    SelectSeq(nodes, LAMBDA x : x.op = "call_function" /\ x.target = CopyTarget)

InputCountMismatch == Len(ep.input_specs) # Len(PlaceholderNodes(ep.nodes))

OutputCountMismatch == Len(ep.output_specs) # Len(OutputNode(ep.nodes).args)

\* Two names that are equal once "." is replaced by "_" in both.
SameFlatName(a, b) ==
    /\ Len(a) = Len(b)
    /\ \A i \in 1 .. Len(a) :
          (IF a[i] = "." THEN "_" ELSE a[i]) = (IF b[i] = "." THEN "_" ELSE b[i])

\* A mutation output whose flattened target names neither the attribute of a
\* lifted input nor an input node that stays.
DanglingMutationTarget ==
    LET phs == PlaceholderNodes(ep.nodes)
        n == ZipLen(phs, ep.input_specs)
        m == ZipLen(OutputNode(ep.nodes).args, ep.output_specs)
    IN \E j \in 1 .. m :
          /\ IsMutationSpec(ep.output_specs[j])
          /\ ~\E k \in 1 .. n :
                IF IsLiftedSpec(ep.input_specs[k])
                THEN SameFlatName(ep.input_specs[k].target.name,
                                  ep.output_specs[j].target.name)
                ELSE IsFlatNameOf(phs[k].name, ep.output_specs[j].target.name)

\* C9: unlift fails, and no stateful module exists, whenever the number of input
\* specs differs from the number of input nodes (found before any input node is
\* rewritten), the number of output specs differs from the number of returned
\* values, or a mutation output's flattened target names neither an unlifted
\* attribute node nor a retained input node.
C9_InconsistentSignatureFails ==
    /\ (InputCountMismatch \/ OutputCountMismatch \/ DanglingMutationTarget) =>
          /\ upc \in {"lifted", "registered", "inputs_done", "failed"}
          /\ ~new_gm.hooked
    /\ (InputCountMismatch /\ upc \notin {"lifted", "registered"}) =>
          /\ upc = "failed"
          /\ uerr = "AssertionError: input count"
          /\ new_gm.nodes = ep.nodes
    /\ (OutputCountMismatch /\ upc \notin {"lifted", "registered", "inputs_done"}) =>
          /\ upc = "failed"
          /\ uerr \in {"AssertionError: input count", "AssertionError: output count"}
    /\ (DanglingMutationTarget /\ upc \notin {"lifted", "registered", "inputs_done"}) =>
          /\ upc = "failed"
          /\ uerr # "none"

C9_Witness ==
    /\ upc = "failed"
    /\ uerr = "RuntimeError: mutation target not found"
    /\ DanglingMutationTarget
    /\ ~InputCountMismatch
    /\ ~OutputCountMismatch

\* C10 as stated: a second application of unlift to an unlifted graph is
\* always rejected and leaves the graph as it was.
C10_SecondUnliftAlwaysRejected ==
    again.done => (~again.ok /\ again.nodes = new_gm.nodes)

NumLifted == Cardinality({k \in 1 .. Len(ep.input_specs) : IsLiftedSpec(ep.input_specs[k])})

NumMutations ==
    Cardinality({k \in 1 .. Len(ep.output_specs) : IsMutationSpec(ep.output_specs[k])})

\* C10 as amended: the second application is rejected, leaving the graph as it
\* was, exactly when the first one unlifted an input or removed a mutation
\* output: the count assertions then fail.  With no lifted input and no
\* mutation output it succeeds and rebuilds the output node.
C10_SecondUnliftRejectedByCounts ==
    again.done =>
        /\ NumLifted > 0 =>
              /\ ~again.ok
              /\ again.err = "AssertionError: input count"
              /\ again.nodes = new_gm.nodes
        /\ (NumLifted = 0 /\ NumMutations > 0) =>
              /\ ~again.ok
              /\ again.err = "AssertionError: output count"
              /\ again.nodes = new_gm.nodes
        /\ (NumLifted = 0 /\ NumMutations = 0) =>
              /\ again.ok
              /\ again.nodes # new_gm.nodes
              /\ PlaceholderNodes(again.nodes) = PlaceholderNodes(new_gm.nodes)
              /\ OutputNode(again.nodes).args = OutputNode(new_gm.nodes).args

C10_Witness == again.done /\ ~again.ok /\ NumLifted = 0 /\ NumMutations > 0

\* C11: whatever step unlift has reached, returned or failed, the original
\* program's graph, signature, and the keys of its state_dict and constants are
\* what they were when unlift was called.
C11_OriginalNeverMutated ==
    upc # "idle" =>
        /\ orig.graph = ep.nodes
        /\ PlaceholderNodes(orig.graph) = PlaceholderNodes(ep.nodes)
        /\ OutputNode(orig.graph) = OutputNode(ep.nodes)
        /\ orig.input_specs = ep.input_specs
        /\ orig.output_specs = ep.output_specs
        /\ orig = OriginalOf(ep)
        /\ new_gm.obj # OrigGraphModule

C11_Witness ==
    /\ upc = "failed"
    /\ uerr = "RuntimeError: mutation target not found"
    /\ new_gm.nodes # ep.nodes
    /\ orig.graph = ep.nodes
    /\ NumLifted > 0

\* The lifted input an attribute-reference node was created for: the node
\* carries the metadata of the input node it replaced.
CreatedFor(node) ==
    CHOOSE k \in 1 .. Len(PlaceholderNodes(ep.nodes)) :
        PlaceholderNodes(ep.nodes)[k].meta = node.meta

AttributeNodes(nodes) == SelectSeq(nodes, LAMBDA x : x.op = "get_attr")

\* C17: after a successful unlift every attribute-reference node names a
\* registered attribute holding the value recorded under the target name of the
\* lifted input it was created for, and two lifted inputs with distinct target
\* names never name the same attribute.
C17_AttributesHoldOwnValue ==
    Unlifted =>
        LET refs == AttributeNodes(new_gm.nodes)
        IN /\ \A i \in 1 .. Len(refs) :
                /\ refs[i].target \in DOMAIN new_gm.attrs
                /\ new_gm.attrs[refs[i].target].key =
                      ep.input_specs[CreatedFor(refs[i])].target.name
           /\ \A i, j \in 1 .. Len(refs) :
                ep.input_specs[CreatedFor(refs[i])].target.name #
                    ep.input_specs[CreatedFor(refs[j])].target.name
                => refs[i].target # refs[j].target

\* ------------------------------------------------------------------------
\* Invoking a stateful graph module
\* ------------------------------------------------------------------------
\* Argument trees: a leaf is a tensor, given by the size of its dimension 0.
Leaf(v) == [type |-> "leaf", val |-> v, keys |-> <<>>, items |-> <<>>]

Tuple(items) == [type |-> "tuple", val |-> 0, keys |-> <<>>, items |-> items]

Dict(keys, items) == [type |-> "dict", val |-> 0, keys |-> keys, items |-> items]

LeafSpec == [type |-> "leaf", context |-> <<>>, children |-> <<>>]

\* pytree.tree_flatten: the leaves left to right, and the tree spec.
RECURSIVE TreeSpecOf(_)
TreeSpecOf(t) ==
    IF t.type = "leaf" THEN LeafSpec
    ELSE [type |-> t.type, context |-> t.keys,
          children |-> [i \in 1 .. Len(t.items) |-> TreeSpecOf(t.items[i])]]

RECURSIVE TreeLeaves(_)
RECURSIVE LeavesFrom(_, _)
LeavesFrom(items, k) ==
    IF k > Len(items) THEN <<>>
    ELSE TreeLeaves(items[k]) \o LeavesFrom(items, k + 1)

TreeLeaves(t) == IF t.type = "leaf" THEN <<t.val>> ELSE LeavesFrom(t.items, 1)

tree_flatten(t) == [leaves |-> TreeLeaves(t), spec |-> TreeSpecOf(t)]

RECURSIVE NumLeaves(_)
RECURSIVE NumLeavesFrom(_, _)
NumLeavesFrom(children, k) ==
    IF k > Len(children) THEN 0
    ELSE NumLeaves(children[k]) + NumLeavesFrom(children, k + 1)

\* TreeSpec.num_leaves
NumLeaves(spec) == IF spec.type = "leaf" THEN 1 ELSE NumLeavesFrom(spec.children, 1)

Sizes == {1, 5}

ArgValues == {Leaf(v) : v \in Sizes} \cup {Tuple(<<Leaf(1)>>)}

KwargValues == {Dict(<<>>, <<>>), Dict(<<"k">>, <<Leaf(1)>>)}

\* What the hook receives: the pair (args, kwargs).
Received ==
    {Tuple(<<Tuple(a), kw>>) : a \in SeqsUpTo(ArgValues, MaxArgs), kw \in KwargValues}

InSpecs == {TreeSpecOf(t) : t \in Received}

\* The frozen range of dimension 0 of every input.
RangeConstraints == {[lo |-> 1, hi |-> 9], [lo |-> 2, hi |-> 9]}

\* _check_input_constraints_for_graph: one flat argument per input node, each
\* within the frozen range.
CheckInputConstraintsForGraph(placeholders, flat, rc) ==
    /\ Len(flat) = placeholders
    /\ \A i \in 1 .. Len(flat) : rc.lo <= flat[i] /\ flat[i] <= rc.hi

\* A hook that lets every structure through.
SpecsNotCompared(received_spec, in_spec) == TRUE

\* received_spec != self._in_spec, negated
SpecsEqual(received_spec, in_spec) == received_spec = in_spec

\* The plain graph module _unlift returns: recompile() recorded in_spec on it.
InitCall ==
    /\ MCIdle
    /\ UnliftIdle
    /\ SerdeIdle
    /\ \E sp \in InSpecs :
          module = [NoStatefulModule EXCEPT !.in_spec = sp,
                                            !.placeholders = NumLeaves(sp)]
    /\ call = NoCall
    /\ history = <<>>

\* Lines 218-230.
CreateStatefulGraphModule ==
    /\ ~module.created
    /\ \E rc \in RangeConstraints :
          module' = [module EXCEPT
                       !.created = TRUE,
                       !.range_constraints = rc,
                       !.hooks = Append(@, "_check_input_constraints_pre_hook")]
    /\ UNCHANGED <<call, history>>
    /\ UNCHANGED <<mcvars, uvars, svars>>

\* module(*args, **kwargs): the pre-call hooks run first.
CallModule ==
    /\ module.created
    /\ call.phase \in {"none", "failed", "returned"}
    /\ Len(history) + (IF call.phase = "none" THEN 0 ELSE 1) < MaxCalls
    /\ \E t \in Received : call' = [NoCall EXCEPT !.phase = "pre_hooks", !.received = t]
    /\ history' = IF call.phase = "none" THEN history ELSE Append(history, call.err)
    /\ UNCHANGED module
    /\ UNCHANGED <<mcvars, uvars, svars>>

\* Lines 17-33.
CheckInputConstraintsPreHook ==
    /\ call.phase = "pre_hooks"
    /\ Len(module.hooks) > 0
    /\ LET fl == tree_flatten(call.received)
           flattened == [call EXCEPT !.flat = fl.leaves, !.received_spec = fl.spec]
       IN IF ~SpecsEqual(fl.spec, module.in_spec)
          THEN call' = [flattened EXCEPT !.phase = "failed",
                                         !.err = "ValueError: tree spec"]
          ELSE IF CheckInputConstraintsForGraph(module.placeholders, fl.leaves,
                                                module.range_constraints)
          THEN call' = [flattened EXCEPT !.phase = "forward", !.range_checked = TRUE]
          ELSE call' = [flattened EXCEPT !.phase = "failed", !.range_checked = TRUE,
                                         !.err = "RuntimeError: range"]
    /\ UNCHANGED <<module, history>>
    /\ UNCHANGED <<mcvars, uvars, svars>>

\* forward(): the graph's nodes run, the input nodes and the rest.
Forward ==
    /\ call.phase = "forward"
    /\ call' = [call EXCEPT !.phase = "returned", !.executed = module.placeholders + 1]
    /\ UNCHANGED <<module, history>>
    /\ UNCHANGED <<mcvars, uvars, svars>>

NextCall ==
    \/ CreateStatefulGraphModule
    \/ CallModule
    \/ CheckInputConstraintsPreHook
    \/ Forward

SpecCall == InitCall /\ [][NextCall]_vars

HookDone == call.phase \in {"failed", "forward", "returned"}

\* C12: on every invocation the hook first flattens what it received; if the
\* tree spec differs from in_spec the call fails with the structure error, with
\* no range check and no node executed; the range check runs only when the
\* specs are equal; and the module is never changed by a call, so the next
\* call is checked the same way.
C12_StructureCheckedFirst ==
    /\ [](HookDone =>
            /\ call.received_spec = TreeSpecOf(call.received)
            /\ call.flat = TreeLeaves(call.received))
    /\ []((HookDone /\ TreeSpecOf(call.received) # module.in_spec) =>
            /\ call.phase = "failed"
            /\ call.err = "ValueError: tree spec"
            /\ ~call.range_checked
            /\ call.executed = 0)
    /\ [](call.range_checked => TreeSpecOf(call.received) = module.in_spec)
    /\ []((HookDone /\ TreeSpecOf(call.received) = module.in_spec) =>
            /\ call.range_checked
            /\ call.err # "ValueError: tree spec")
    /\ [](call.executed > 0 => (call.range_checked /\ call.err = "none"))
    /\ [][module.created => module' = module]_vars

C12_Witness ==
    /\ Len(history) = 1
    /\ history[1] = "ValueError: tree spec"
    /\ call.phase = "returned"
    /\ call.range_checked
    /\ call.executed > 0

\* ------------------------------------------------------------------------
\* save and load
\* ------------------------------------------------------------------------
\* Characters and their UTF-8 bytes; TwoByteChar stands for a character outside
\* ASCII, which takes two bytes.
Chars == {".", "/", "0", "1", "2", "d", "f", "h", "n", "v", "e"}

TwoByteChar == "E"

CodeOf(ch) ==
    CASE ch = "." -> 46 [] ch = "/" -> 47 [] ch = "0" -> 48 [] ch = "1" -> 49
      [] ch = "2" -> 50 [] ch = "d" -> 100 [] ch = "e" -> 101 [] ch = "f" -> 102
      [] ch = "h" -> 104 [] ch = "n" -> 110 [] OTHER -> 118

CharOf(b) == CHOOSE ch \in Chars : CodeOf(ch) = b

\* str.encode('utf-8')
RECURSIVE Utf8Encode(_)
Utf8Encode(text) ==
    IF text = <<>> THEN <<>>
    ELSE (IF Head(text) = TwoByteChar THEN <<195, 137>> ELSE <<CodeOf(Head(text))>>)
         \o Utf8Encode(Tail(text))

\* bytes.decode('utf-8')
RECURSIVE Utf8Decode(_)
Utf8Decode(bytes) ==
    IF bytes = <<>> THEN <<>>
    ELSE IF Head(bytes) = 195
    THEN <<TwoByteChar>> \o Utf8Decode(Tail(Tail(bytes)))
    ELSE <<CharOf(Head(bytes))>> \o Utf8Decode(Tail(bytes))

\* str(n) for 0 <= n < 100
DigitChar(d) == CASE d = 0 -> "0" [] d = 1 -> "1" [] OTHER -> "2"

Str(n) == IF n < 10 THEN <<DigitChar(n)>> ELSE <<DigitChar(n \div 10), DigitChar(n % 10)>>

\* sep.join(parts)
RECURSIVE Join(_, _)
Join(sep, parts) ==
    IF parts = <<>> THEN <<>>
    ELSE IF Len(parts) = 1 THEN parts[1]
    ELSE parts[1] \o <<sep>> \o Join(sep, Tail(parts))

\* Position of the first sep in text, or 0.
FirstAt(text, sep) ==
    IF \E i \in 1 .. Len(text) : text[i] = sep
    THEN CHOOSE i \in 1 .. Len(text) :
            text[i] = sep /\ \A j \in 1 .. (i - 1) : text[j] # sep
    ELSE 0

\* text.split(sep)
RECURSIVE Split(_, _)
Split(text, sep) ==
    IF FirstAt(text, sep) = 0 THEN <<text>>
    ELSE <<SubSeq(text, 1, FirstAt(text, sep) - 1)>>
         \o Split(SubSeq(text, FirstAt(text, sep) + 1, Len(text)), sep)

\* text.split(sep, 1)
SplitOnce(text, sep) ==
    IF FirstAt(text, sep) = 0 THEN <<text>>
    ELSE <<SubSeq(text, 1, FirstAt(text, sep) - 1),
           SubSeq(text, FirstAt(text, sep) + 1, Len(text))>>

StartsWith(text, prefix) ==
    Len(text) >= Len(prefix) /\ SubSeq(text, 1, Len(prefix)) = prefix

\* The names of the archive's entries.
ExportedProgramJson == 
    <<"s", "e", "r", "i", "a", "l", "i", "z", "e", "d", "_", "e", "x",
      "p", "o", "r", "t", "e", "d", "_", "p", "r", "o", "g", "r",
      "a", "m", ".", "j", "s", "o", "n">>

StateDictPt == 
    <<"s", "e", "r", "i", "a", "l", "i", "z", "e", "d", "_", "s", "t",
      "a", "t", "e", "_", "d", "i", "c", "t", ".", "p", "t">>

ConstantsPt == 
    <<"s", "e", "r", "i", "a", "l", "i", "z", "e", "d", "_", "c", "o",
      "n", "s", "t", "a", "n", "t", "s", ".", "p", "t">>

StateDictJson == 
    <<"s", "e", "r", "i", "a", "l", "i", "z", "e", "d", "_", "s", "t",
      "a", "t", "e", "_", "d", "i", "c", "t", ".", "j", "s", "o",
      "n">>

ConstantsJson == 
    <<"s", "e", "r", "i", "a", "l", "i", "z", "e", "d", "_", "c", "o",
      "n", "s", "t", "a", "n", "t", "s", ".", "j", "s", "o", "n">>

VersionFile == <<"v", "e", "r", "s", "i", "o", "n">>

ExtraFiles == <<"e", "x", "t", "r", "a", "_", "f", "i", "l", "e", "s">>

\* The schema version of the running program, and the components a schema
\* version is made of.
SCHEMA_VERSION == <<1, 1, 1>>

VersionNumbers == {1, 2, 10}

\* Every release writes major.minor.patch; only the running one has all three
\* equal to SCHEMA_VERSION.
SchemaVersions == [1 .. Len(SCHEMA_VERSION) -> VersionNumbers]

ExportedPrograms == {1, 2}

\* serialize(ep): three byte payloads, different for different programs.
Serialize(e) ==
    [exported_program |-> <<123, 48 + e, 125>>,
     state_dict |-> <<80, 75, 48 + e>>,
     constants |-> <<80, 75, 64 + e>>]

\* deserialize(artifact): the program whose payloads these are.
Deserialize(artifact) ==
    IF \E e \in ExportedPrograms : Serialize(e) = artifact
    THEN CHOOSE e \in ExportedPrograms : Serialize(e) = artifact
    ELSE 0

ExtraFileNames == {<<"n">>, <<"d", "/", "f">>, <<"v">>}

ExtraFileContents == {<<>>, <<"h", TwoByteChar>>}

\* extra_files of save: a dict, as its items in insertion order.
ExtraFileDicts ==
    {d \in SeqsUpTo([name : ExtraFileNames, content : ExtraFileContents],
                    MaxExtraFiles) :
        \A i, j \in 1 .. Len(d) : i # j => d[i].name # d[j].name}

\* extra_files of load: absent, empty, or naming a file whose text is wanted.
LoadExtraFiles ==
    {[given |-> FALSE, map |-> EmptyMap],
     [given |-> TRUE, map |-> EmptyMap],
     [given |-> TRUE, map |-> Put(EmptyMap, <<"n">>, <<>>)]}

ZipEntry(filename, data) == [filename |-> filename, data |-> data]

\* ZipFile.writestr encodes a str; bytes are written as they are.
WriteStr(zipf, filename, text) == Append(zipf, ZipEntry(filename, Utf8Encode(text)))

WriteBytes(zipf, filename, data) == Append(zipf, ZipEntry(filename, data))

\* ZipFile.read(name)
ZipRead(zipf, filename) ==
    zipf[CHOOSE i \in 1 .. Len(zipf) : zipf[i].filename = filename].data

RECURSIVE WriteExtraFiles(_, _, _)
WriteExtraFiles(zipf, items, k) ==
    IF k > Len(items) THEN zipf
    ELSE WriteExtraFiles(
            WriteBytes(zipf, ExtraFiles \o <<"/">> \o items[k].name,
                       Utf8Encode(items[k].content)),
            items, k + 1)

\* Lines 223-241.
SaveArchive(e, extra_files, schema_version) ==
    LET artifact == Serialize(e)
        z1 == WriteBytes(<<>>, ExportedProgramJson, artifact.exported_program)
        z2 == WriteBytes(z1, StateDictPt, artifact.state_dict)
        z3 == WriteBytes(z2, ConstantsPt, artifact.constants)
        z4 == WriteStr(z3, VersionFile,
                       Join(".", [i \in 1 .. Len(schema_version) |->
                                     Str(schema_version[i])]))
    IN WriteExtraFiles(z4, extra_files, 1)

\* Line 253: extra_files or {}.  An absent or empty dict is replaced by a new
\* one; otherwise load fills the caller's own dict.
ExtraFilesOr(arg) ==
    IF arg.given /\ DOMAIN arg.map # {}
    THEN [map |-> arg.map, callers_map |-> TRUE]
    ELSE [map |-> EmptyMap, callers_map |-> FALSE]

\* A gate that wants the whole version to be the running one.
VersionGateExact(version, schema) ==
    version = [i \in 1 .. Len(schema) |-> Str(schema[i])]

\* Line 261, negated: version[0] == str(SCHEMA_VERSION[0])
VersionGatePasses(version, schema) == version[1] = Str(schema[1])

\* A split at every "/".
ExtraFileNamePartsAll(filename) == Split(filename, "/")

\* Line 291: file_info.filename.split("/", 1)
ExtraFileNameParts(filename) == SplitOnce(filename, "/")

InitSerde ==
    /\ MCIdle
    /\ UnliftIdle
    /\ CallIdle
    /\ saved \in [ep : ExportedPrograms, extra_files : ExtraFileDicts,
                  schema_version : SchemaVersions,
                  load_extra_files : LoadExtraFiles]
    /\ archive = <<>>
    /\ ld = NoLoad

\* save(ep, f, extra_files=...), run by a release whose schema version is
\* saved.schema_version.
Save ==
    /\ archive = <<>>
    /\ archive' = SaveArchive(saved.ep, saved.extra_files, saved.schema_version)
    /\ UNCHANGED <<saved, ld>>
    /\ UNCHANGED <<mcvars, uvars, cvars>>

\* Lines 250-255.
LoadBegin ==
    /\ archive # <<>>
    /\ ld.phase = "none"
    /\ ld' = [NoLoad EXCEPT
                !.phase = "opened",
                !.extra_files = ExtraFilesOr(saved.load_extra_files).map,
                !.callers_map = ExtraFilesOr(saved.load_extra_files).callers_map]
    /\ UNCHANGED <<saved, archive>>
    /\ UNCHANGED <<mcvars, uvars, cvars>>

\* Lines 257-265.
CheckVersion ==
    /\ ld.phase = "opened"
    /\ LET version == Split(Utf8Decode(ZipRead(archive, VersionFile)), ".")
       IN IF Len(version) # Len(SCHEMA_VERSION)
          THEN ld' = [ld EXCEPT !.version = version, !.phase = "failed",
                                !.err = "AssertionError: version length"]
          ELSE IF ~VersionGatePasses(version, SCHEMA_VERSION)
          THEN ld' = [ld EXCEPT !.version = version, !.phase = "failed",
                                !.err = "RuntimeError: version"]
          ELSE ld' = [ld EXCEPT !.version = version, !.phase = "reading",
                                !.next = 1]
    /\ UNCHANGED <<saved, archive>>
    /\ UNCHANGED <<mcvars, uvars, cvars>>

\* Lines 275-292: one turn of the loop over zipf.infolist().
ReadEntry ==
    /\ ld.phase = "reading"
    /\ ld.next <= Len(archive)
    /\ LET filename == archive[ld.next].filename
           file_content == [isSet |-> TRUE, data |-> archive[ld.next].data]
           read == [ld EXCEPT !.next = @ + 1, !.reads = @ + 1]
       IN IF filename = ExportedProgramJson
          THEN ld' = [read EXCEPT !.serialized_exported_program = file_content]
          ELSE IF filename = StateDictJson
          THEN ld' = [read EXCEPT !.serialized_state_dict = file_content,
                                  !.warnings = @ + 1]
          ELSE IF filename = ConstantsJson
          THEN ld' = [read EXCEPT !.serialized_constants = file_content,
                                  !.warnings = @ + 1]
          ELSE IF filename = StateDictPt
          THEN ld' = [read EXCEPT !.serialized_state_dict = file_content]
          ELSE IF filename = ConstantsPt
          THEN ld' = [read EXCEPT !.serialized_constants = file_content]
          ELSE IF StartsWith(filename, ExtraFiles)
          THEN IF Len(ExtraFileNameParts(filename)) < 2
               THEN ld' = [read EXCEPT !.phase = "failed", !.err = "IndexError"]
               ELSE ld' = [read EXCEPT
                             !.extra_files =
                                 Put(@, ExtraFileNameParts(filename)[2],
                                     Utf8Decode(file_content.data))]
          ELSE ld' = read
    /\ UNCHANGED <<saved, archive>>
    /\ UNCHANGED <<mcvars, uvars, cvars>>

\* Lines 294-306.
DeserializeArtifact ==
    /\ ld.phase = "reading"
    /\ ld.next > Len(archive)
    /\ IF /\ ld.serialized_exported_program.isSet
          /\ ld.serialized_state_dict.isSet
          /\ ld.serialized_constants.isSet
       THEN LET artifact ==
                   [exported_program |-> ld.serialized_exported_program.data,
                    state_dict |-> ld.serialized_state_dict.data,
                    constants |-> ld.serialized_constants.data]
            IN ld' = [ld EXCEPT !.artifact = artifact, !.ep = Deserialize(artifact),
                                !.phase = "loaded"]
       ELSE ld' = [ld EXCEPT !.phase = "failed", !.err = "AssertionError: payload"]
    /\ UNCHANGED <<saved, archive>>
    /\ UNCHANGED <<mcvars, uvars, cvars>>

NextSerde ==
    \/ Save
    \/ LoadBegin
    \/ CheckVersion
    \/ ReadEntry
    \/ DeserializeArtifact

SpecSerde == InitSerde /\ [][NextSerde]_vars

GateDone == ld.phase \in {"reading", "loaded", "failed"}

ShapeEnvUntouched ==
    /\ tracked_fakes' = tracked_fakes
    /\ debug_names' = debug_names
    /\ sources' = sources
    /\ var_to_range' = var_to_range

\* C15: a step of fakify on a None or script-object leaf returns that leaf and
\* appends no tracked fake and registers no debug name or dimension source; on
\* any other leaf that is no tensor it raises ValueError, again appending and
\* registering nothing.
C15_NonFakingPathsLeaveShapeEnv ==
    [][(pc = "fakify" /\ Len(fake_args) < Len(args)) =>
          LET t == args[Len(fake_args) + 1]
          IN /\ t.kind \in {"None", "ScriptObject"} =>
                   /\ Len(fake_args') = Len(fake_args) + 1
                   /\ fake_args'[Len(fake_args')].kind = t.kind
                   /\ SubSeq(fake_args', 1, Len(fake_args)) = fake_args
                   /\ pc' = "fakify"
                   /\ raised' = NoError
                   /\ ShapeEnvUntouched
             /\ t.kind = "Other" =>
                   /\ pc' = "failed"
                   /\ raised'.isSet
                   /\ raised'.id = "ValueError"
                   /\ fake_args' = fake_args
                   /\ ShapeEnvUntouched]_vars

C15_Witness ==
    /\ pc = "failed"
    /\ raised.id = "ValueError"
    /\ Len(args) = 2
    /\ args[1].kind = "ScriptObject"
    /\ Len(fake_args) = 1
    /\ fake_args[1].kind = "ScriptObject"
    /\ tracked_fakes = <<>>
    /\ constraints # <<>>

\* The declared constraints that name dimension d of tensor t, on either side.
Naming(t, d) ==
    {k \in 1 .. Len(constraints) :
        \/ (constraints[k].t_id = t /\ constraints[k].dim = d)
        \/ constraints[k].shared = [t_id |-> t, dim |-> d]}

\* The positions of the tensor leaves among the first n leaves, in walk order.
TensorLeafPositions(n) ==
    SelectSeq([i \in 1 .. n |-> i], LAMBDA i : args[i].kind = "Tensor")

\* C16: the symbolic context of every faked tensor marks a dimension DYNAMIC,
\* with the declared range, exactly when a declared constraint names that
\* (tensor, dimension), and STATIC with no range otherwise; and the tracked
\* fakes are the tensor leaves walked so far, one entry each, in walk order.
C16_ContextFollowsConstraints ==
    pc \notin {"idle", "mfi_start"} =>
        LET walked == TensorLeafPositions(Len(fake_args))
        IN /\ Len(tracked_fakes) = Len(walked)
           /\ pc \notin {"fakify", "failed"} =>
                 Len(tracked_fakes) = Len(TensorLeafPositions(Len(args)))
           /\ \A i \in 1 .. Len(tracked_fakes) :
                 LET t == args[walked[i]].id
                     ctx == tracked_fakes[i].symbolic_context
                 IN /\ tracked_fakes[i].source = key_path_to_source(walked[i] - 1)
                    /\ tracked_fakes[i].fake = fake_args[walked[i]]
                    /\ Len(ctx.dynamic_sizes) = Len(Shape(t))
                    /\ Len(ctx.constraint_sizes) = Len(Shape(t))
                    /\ \A d \in 1 .. Len(Shape(t)) :
                          IF Naming(t, d - 1) # {}
                          THEN /\ ctx.dynamic_sizes[d] = "DYNAMIC"
                               /\ ctx.constraint_sizes[d] =
                                     constraints[Max(Naming(t, d - 1))].constraint_range
                          ELSE /\ ctx.dynamic_sizes[d] = "STATIC"
                               /\ ctx.constraint_sizes[d] = NoRange

C16_Witness ==
    /\ pc = "mfi_done"
    /\ Len(args) = 2
    /\ args[1].kind = "None"
    /\ Len(tracked_fakes) = 1
    /\ tracked_fakes[1].symbolic_context.dynamic_sizes = <<"DYNAMIC", "STATIC">>
    /\ tracked_fakes[1].symbolic_context.constraint_sizes[1] # NoRange

====
